---- MODULE Spec2Model ----
(***************************************************************************)
(* Model of fix_price_function.py: read unified_bot.js as UTF-8 text,      *)
(* replace the first region matching the getRealMarketPrice pattern by     *)
(* new_function, write the text back, print the success message.           *)
(*                                                                         *)
(* Text is modelled by character classes, the only thing the pattern and   *)
(* the text layer of the file distinguish:                                 *)
(*   "H"   the literal 'async function getRealMarketPrice(' of the pattern *)
(*   ")" "{" "}"  themselves                                               *)
(*   "LF" "CR"    line feed, carriage return (both whitespace)             *)
(*   "SP"         any other ASCII whitespace                               *)
(*   "x"          a run of any other ASCII characters                      *)
(*   "E9"         a non-ASCII character; on disk the two bytes "C3" "A9"   *)
(* A file on disk is a sequence of bytes, the string in memory a sequence  *)
(* of characters.                                                          *)
(***************************************************************************)
EXTENDS Integers, Sequences, FiniteSets, TLC

VARIABLES file, mode, env, proc, hist

vars == <<file, mode, env, proc, hist>>

----------------------------------------------------------------------------
(* Bounds of the explored inputs *)

MaxRaw == 2

MaxFragments == 3

MaxRuns == 2

----------------------------------------------------------------------------
(* Helpers *)

Whitespace == {"SP", "LF", "CR"}

RECURSIVE Flatten(_)
Flatten(ss) == IF ss = <<>> THEN <<>> ELSE Head(ss) \o Flatten(Tail(ss))

SeqsUpTo(S, n) == UNION {[1..k -> S] : k \in 0..n}

----------------------------------------------------------------------------
(* open(..., 'r', encoding='utf-8').read(): strict UTF-8 decoding followed *)
(* by universal-newline translation (newline=None). Each is given by what  *)
(* it yields for the element at position i, and the pieces are joined over *)
(* a range of positions split in halves.                                   *)

(* strict decoding raises unless every lead byte is followed by its       *)
(* continuation byte and every continuation byte follows a lead byte       *)
Utf8Valid(b) ==
    {i \in 1..Len(b) :
        \/ b[i] = "C3" /\ ~ (i < Len(b) /\ b[i + 1] = "A9")
        \/ b[i] = "A9" /\ ~ (i > 1 /\ b[i - 1] = "C3")} = {}

Utf8DecodeAt(b, i) ==
    IF b[i] = "C3" THEN <<"E9">>
    ELSE IF b[i] = "A9" THEN <<>>
    ELSE <<b[i]>>

RECURSIVE Utf8DecodeRange(_, _, _)
Utf8DecodeRange(b, lo, hi) ==
    IF lo > hi THEN <<>>
    ELSE IF lo = hi THEN Utf8DecodeAt(b, lo)
    ELSE LET mid == (lo + hi) \div 2
         IN  Utf8DecodeRange(b, lo, mid) \o Utf8DecodeRange(b, mid + 1, hi)

Utf8Decode(b) == Utf8DecodeRange(b, 1, Len(b))

(* variant: the "\n" of a "\r\n" pair is kept after the "\r" was translated *)
TranslateNewlineAt_KeepLF(t, i) ==
    IF t[i] = "CR" THEN <<"LF">> ELSE <<t[i]>>

(* "\r\n" and a lone "\r" both become "\n" *)
TranslateNewlineAt(t, i) ==
    IF t[i] = "CR" THEN <<"LF">>
    ELSE IF t[i] = "LF" /\ i > 1 /\ t[i - 1] = "CR" THEN <<>>
    ELSE <<t[i]>>

RECURSIVE TranslateNewlinesRange(_, _, _)
TranslateNewlinesRange(t, lo, hi) ==
    IF lo > hi THEN <<>>
    ELSE IF lo = hi THEN TranslateNewlineAt(t, lo)
    ELSE LET mid == (lo + hi) \div 2
         IN  TranslateNewlinesRange(t, lo, mid) \o TranslateNewlinesRange(t, mid + 1, hi)

TranslateNewlines(t) == TranslateNewlinesRange(t, 1, Len(t))

ReadText(b) == TranslateNewlines(Utf8Decode(b))

(* open(..., 'w', encoding='utf-8').write(): every "\n" becomes os.linesep, *)
(* then the text is encoded as UTF-8.                                       *)

LineSeps == {<<"LF">>, <<"CR", "LF">>}

RECURSIVE WriteNewlinesRange(_, _, _, _)
WriteNewlinesRange(t, sep, lo, hi) ==
    IF lo > hi THEN <<>>
    ELSE IF lo = hi THEN (IF t[lo] = "LF" THEN sep ELSE <<t[lo]>>)
    ELSE LET mid == (lo + hi) \div 2
         IN  WriteNewlinesRange(t, sep, lo, mid) \o WriteNewlinesRange(t, sep, mid + 1, hi)

WriteNewlines(t, sep) == WriteNewlinesRange(t, sep, 1, Len(t))

RECURSIVE Utf8EncodeRange(_, _, _)
Utf8EncodeRange(t, lo, hi) ==
    IF lo > hi THEN <<>>
    ELSE IF lo = hi THEN (IF t[lo] = "E9" THEN <<"C3", "A9">> ELSE <<t[lo]>>)
    ELSE LET mid == (lo + hi) \div 2
         IN  Utf8EncodeRange(t, lo, mid) \o Utf8EncodeRange(t, mid + 1, hi)

Utf8Encode(t) == Utf8EncodeRange(t, 1, Len(t))

WriteText(t, sep) == Utf8Encode(WriteNewlines(t, sep))

----------------------------------------------------------------------------
(* new_function, lines 8-44 of the script, character class by character    *)
(* class: a run of ordinary ASCII text (spaces inside it included) is one  *)
(* "x", a run of spaces standing alone is one "SP", a run of non-ASCII     *)
(* characters one "E9"; every parenthesis-closing, brace and line break is *)
(* kept. The text holds no backslash, so re.sub's template expansion of it *)
(* yields the text itself.                                                 *)

new_function ==
    <<"H", "x", ")", "SP", "{", "LF">>   \* line 8
    \o <<"x", "{", "x", "}", "x", "LF">>   \* line 9
    \o <<"x", ")", "x", "LF">>   \* line 10
    \o <<"SP", "LF">>   \* line 11
    \o <<"x", "E9", "x", "LF">>   \* line 12
    \o <<"x", ")", "x", ")", "SP", "{", "LF">>   \* line 13
    \o <<"x", "LF">>   \* line 14
    \o <<"SP", "}", "LF">>   \* line 15
    \o <<"SP", "LF">>   \* line 16
    \o <<"x", "{", "LF">>   \* line 17
    \o <<"x", "LF">>   \* line 18
    \o <<"x", "{", "x", "}", "x", ")", "x", "LF">>   \* line 19
    \o <<"SP", "LF">>   \* line 20
    \o <<"x", ")", "SP", "{", "LF">>   \* line 21
    \o <<"x", ")", "x", "LF">>   \* line 22
    \o <<"x", "LF">>   \* line 23
    \o <<"SP", "LF">>   \* line 24
    \o <<"x", "E9", "x", "E9", "x", "E9", "x", ")", "LF">>   \* line 25
    \o <<"x", ")", "SP", "{", "LF">>   \* line 26
    \o <<"x", ")", "x", "LF">>   \* line 27
    \o <<"SP", "}", "LF">>   \* line 28
    \o <<"x", ")", "LF">>   \* line 29
    \o <<"x", ")", "SP", "{", "LF">>   \* line 30
    \o <<"x", ")", "x", "LF">>   \* line 31
    \o <<"SP", "}", "LF">>   \* line 32
    \o <<"SP", "LF">>   \* line 33
    \o <<"x", ")", "SP", "{", "LF">>   \* line 34
    \o <<"x", "{", "x", ")", "SP", "}", ")", "x", "LF">>   \* line 35
    \o <<"x", "LF">>   \* line 36
    \o <<"SP", "}", "LF">>   \* line 37
    \o <<"SP", "}", "LF">>   \* line 38
    \o <<"SP", "}", "x", ")", "SP", "{", "LF">>   \* line 39
    \o <<"x", "E9", "x", "{", "x", "}", "x", ")", "x", "LF">>   \* line 40
    \o <<"SP", "}", "LF">>   \* line 41
    \o <<"SP", "LF">>   \* line 42
    \o <<"x", "E9", "x", "LF">>   \* line 43
    \o <<"}">>   \* line 44

----------------------------------------------------------------------------
(* pattern (line 47), matched as the backtracking engine of re matches    *)
(* it. Its pieces, in order:                                               *)
(*   1. the literal header 'async function getRealMarketPrice' and an      *)
(*      opening parenthesis                                  (token "H")   *)
(*   2. one or more characters that are not a closing parenthesis          *)
(*   3. a closing parenthesis                                              *)
(*   4. any number of whitespace characters                                *)
(*   5. an opening brace                                                   *)
(*   6. any number of characters that are not a closing brace              *)
(*   7. any number of repetitions of the group: opening brace, non-closing *)
(*      -brace characters, closing brace, non-closing-brace characters     *)
(*   8. a closing brace                                                    *)
(* Every quantifier is greedy: it first takes the longest run and gives    *)
(* characters back one at a time. A match is reported by the position of   *)
(* its last character, 0 meaning no match from there.                      *)

Min(S) == CHOOSE m \in S : \A n \in S : m <= n

(* length of the longest run from position p of characters outside X, in X *)
RunNotIn(s, p, X) ==
    LET stops == {q \in p..Len(s) : s[q] \in X}
    IN  IF stops = {} THEN Len(s) + 1 - p ELSE Min(stops) - p

RunIn(s, p, X) ==
    LET stops == {q \in p..Len(s) : s[q] \notin X}
    IN  IF stops = {} THEN Len(s) + 1 - p ELSE Min(stops) - p

At(s, p, c) == p <= Len(s) /\ s[p] = c

RECURSIVE GroupStar(_, _)
RECURSIVE GroupTail(_, _, _)
RECURSIVE GroupInner(_, _, _)

(* piece 8: the closing brace that ends the match *)
MatchClose(s, p) == IF At(s, p, "}") THEN p ELSE 0

(* piece 7, the run after the closing brace of one repetition, k characters taken *)
GroupTail(s, p, k) ==
    IF k < 0 THEN 0
    ELSE LET r == GroupStar(s, p + k)
         IN  IF r # 0 THEN r ELSE GroupTail(s, p, k - 1)

(* piece 7, the run inside the braces of one repetition, k characters taken *)
GroupInner(s, p, k) ==
    IF k < 0 THEN 0
    ELSE LET r == IF At(s, p + k, "}")
                  THEN GroupTail(s, p + k + 1, RunNotIn(s, p + k + 1, {"}"}))
                  ELSE 0
         IN  IF r # 0 THEN r ELSE GroupInner(s, p, k - 1)

(* pieces 7 and 8: one more repetition of the group first, else the final brace *)
GroupStar(s, p) ==
    LET r == IF At(s, p, "{")
             THEN GroupInner(s, p + 1, RunNotIn(s, p + 1, {"}"}))
             ELSE 0
    IN  IF r # 0 THEN r ELSE MatchClose(s, p)

(* piece 6, k characters taken *)
RECURSIVE BodyRun(_, _, _)
BodyRun(s, p, k) ==
    IF k < 0 THEN 0
    ELSE LET r == GroupStar(s, p + k)
         IN  IF r # 0 THEN r ELSE BodyRun(s, p, k - 1)

(* pieces 4 and 5, k whitespace characters taken *)
RECURSIVE SpaceRun(_, _, _)
SpaceRun(s, p, k) ==
    IF k < 0 THEN 0
    ELSE LET r == IF At(s, p + k, "{")
                  THEN BodyRun(s, p + k + 1, RunNotIn(s, p + k + 1, {"}"}))
                  ELSE 0
         IN  IF r # 0 THEN r ELSE SpaceRun(s, p, k - 1)

(* pieces 2 and 3, k >= 1 characters taken *)
RECURSIVE ParamRun(_, _, _)
ParamRun(s, p, k) ==
    IF k < 1 THEN 0
    ELSE LET r == IF At(s, p + k, ")")
                  THEN SpaceRun(s, p + k + 1, RunIn(s, p + k + 1, Whitespace))
                  ELSE 0
         IN  IF r # 0 THEN r ELSE ParamRun(s, p, k - 1)

(* the whole pattern tried at position i *)
MatchAt(s, i) ==
    IF At(s, i, "H") THEN ParamRun(s, i + 1, RunNotIn(s, i + 1, {")"})) ELSE 0

NoMatch == [start |-> 0, end |-> 0]

(* re.search order: the leftmost position at which the pattern matches *)
Search(s) ==
    LET starts == {i \in 1..Len(s) : MatchAt(s, i) # 0}
    IN  IF starts = {} THEN NoMatch
        ELSE [start |-> Min(starts), end |-> MatchAt(s, Min(starts))]

(* re.sub(pattern, r, s, count=1) *)
Sub(s, r) ==
    LET m == Search(s)
    IN  IF m = NoMatch THEN s
        ELSE SubSeq(s, 1, m.start - 1) \o r \o SubSeq(s, m.end + 1, Len(s))

----------------------------------------------------------------------------
(* The files the script is run on.                                         *)

InputByte == {"H", "x", ")", "{", "}", "LF", "CR", "C3", "A9"}

(* every byte string of at most MaxRaw bytes, ill-formed UTF-8 included *)
RawFiles == SeqsUpTo(InputByte, MaxRaw)

(* pieces of JavaScript source: a function header up to its opening brace, *)
(* a nested block, a marker followed by a closing brace, a whole function  *)
(* without nested block, plain text, a closing brace, a CRLF line break    *)
(* and a non-ASCII character                                               *)
Fragment ==
    { <<"H", "x", ")", "LF", "{">>,
      <<"{", "x", "}">>,
      <<"x", "}">>,
      <<"H", "x", ")", "{", "x", "}">>,
      <<"x">>,
      <<"}">>,
      <<"CR", "LF">>,
      <<"C3", "A9">> }

SourceFiles == {Flatten(fs) : fs \in SeqsUpTo(Fragment, MaxFragments)}

Files == RawFiles \cup SourceFiles

(* access the process has to unified_bot.js *)
Modes == {"rw", "ro", "noaccess", "missing"}

(* the replacement texts: new_function is the script's; the one-word text  *)
(* stands for a replacement in which the pattern matches nowhere           *)
Replacements == {new_function, <<"x">>}

Procs == {1, 2}

(* the text of line 54, without its check mark and accent *)
SuccessMessage == "Fonction getRealMarketPrice corrigee !"

----------------------------------------------------------------------------
(* State                                                                   *)
(*   file         content of unified_bot.js on disk                        *)
(*   mode         access the process has to the file, "missing" when there *)
(*                is no such file                                          *)
(*   env          what no step changes:                                    *)
(*     .linesep     os.linesep of the platform                             *)
(*     .repl        the replacement text handed to re.sub                  *)
(*     .orig, .origmode  file and mode before the first run (for the       *)
(*                  properties)                                            *)
(*   proc[p]      invocation p of the script:                              *)
(*     .pc          its position in the script                             *)
(*     .content     the variable content                                   *)
(*     .stdout      what it has printed                                    *)
(*     and, recorded for the properties only,                              *)
(*     .span        the region re.sub matched                              *)
(*     .wopens      how often it opened the file for writing               *)
(*     .raced       it read while another invocation had the file open for *)
(*                  writing                                                *)
(*   hist         for each finished run of invocation 1 that was followed  *)
(*                by another, the file it left and the region it matched   *)

linesep == env.linesep

repl == env.repl

orig == env.orig

run == Len(hist) + 1

pc(p) == proc[p].pc

content(p) == proc[p].content

NewProc(start) ==
    [pc |-> start, content |-> <<>>, stdout |-> <<>>, span |-> NoMatch,
     wopens |-> 0, raced |-> FALSE]

InitFile(Rs) ==
    /\ mode \in Modes
    /\ file \in IF mode = "missing" THEN {<<>>} ELSE Files
    /\ \E sep \in LineSeps, r \in Rs :
         env = [linesep |-> sep, repl |-> r, orig |-> file, origmode |-> mode]
    /\ hist = <<>>

(* one invocation of the script, with its own new_function *)
Init ==
    /\ InitFile({new_function})
    /\ proc = [p \in Procs |-> NewProc(IF p = 1 THEN "start" ELSE "off")]

(* variant: the read goes on whatever the access and the bytes are *)
Read_IgnoreErrors(p) ==
    /\ pc(p) = "start"
    /\ proc' = [proc EXCEPT ![p].content = ReadText(file),
                            ![p].raced = \E q \in Procs \ {p} : pc(q) = "opened",
                            ![p].pc = "read"]
    /\ UNCHANGED <<file, mode, env, hist>>

(* lines 4-5: open for reading, read and decode everything, close *)
Read(p) ==
    /\ pc(p) = "start"
    /\ mode \in {"rw", "ro"}
    /\ Utf8Valid(file)
    /\ proc' = [proc EXCEPT ![p].content = ReadText(file),
                            ![p].raced = \E q \in Procs \ {p} : pc(q) = "opened",
                            ![p].pc = "read"]
    /\ UNCHANGED <<file, mode, env, hist>>

(* lines 4-5 raising: FileNotFoundError, PermissionError, UnicodeDecodeError *)
ReadFail(p) ==
    /\ pc(p) = "start"
    /\ ~ (mode \in {"rw", "ro"} /\ Utf8Valid(file))
    /\ proc' = [proc EXCEPT ![p].pc = "crashed_read"]
    /\ UNCHANGED <<file, mode, env, hist>>

(* lines 47-48: content = re.sub(pattern, new_function, content, count=1) *)
Substitute(p) ==
    /\ pc(p) = "read"
    /\ proc' = [proc EXCEPT ![p].span = Search(content(p)),
                            ![p].content = Sub(content(p), repl),
                            ![p].pc = "substituted"]
    /\ UNCHANGED <<file, mode, env, hist>>

(* variant: the file is opened for writing without being truncated *)
OpenWrite_NoTruncate(p) ==
    /\ pc(p) = "substituted"
    /\ mode \in {"rw", "missing"}
    /\ mode' = "rw"
    /\ proc' = [proc EXCEPT ![p].wopens = @ + 1, ![p].pc = "opened"]
    /\ UNCHANGED <<file, env, hist>>

(* line 51: open(..., 'w') creates the file if there is none, else         *)
(* truncates it                                                            *)
OpenWrite(p) ==
    /\ pc(p) = "substituted"
    /\ mode \in {"rw", "missing"}
    /\ file' = <<>>
    /\ mode' = "rw"
    /\ proc' = [proc EXCEPT ![p].wopens = @ + 1, ![p].pc = "opened"]
    /\ UNCHANGED <<env, hist>>

(* line 51 raising PermissionError *)
OpenWriteFail(p) ==
    /\ pc(p) = "substituted"
    /\ mode \notin {"rw", "missing"}
    /\ proc' = [proc EXCEPT ![p].pc = "crashed_write"]
    /\ UNCHANGED <<file, mode, env, hist>>

(* what the file holds once data has been written from offset 0 *)
Overwrite(old, data) == data \o SubSeq(old, Len(data) + 1, Len(old))

(* line 52 and the end of the with block: the text reaches the file *)
WriteClose(p) ==
    /\ pc(p) = "opened"
    /\ file' = Overwrite(file, WriteText(content(p), linesep))
    /\ proc' = [proc EXCEPT ![p].pc = "written"]
    /\ UNCHANGED <<mode, env, hist>>

(* variant: the message is printed only when re.sub replaced something *)
PrintSuccess_IfReplaced(p) ==
    /\ pc(p) = "written"
    /\ proc' = [proc EXCEPT ![p].stdout = IF proc[p].span = NoMatch THEN @
                                          ELSE Append(@, SuccessMessage),
                            ![p].pc = "done"]
    /\ UNCHANGED <<file, mode, env, hist>>

(* line 54: print *)
PrintSuccess(p) ==
    /\ pc(p) = "written"
    /\ proc' = [proc EXCEPT ![p].stdout = Append(@, SuccessMessage),
                            ![p].pc = "done"]
    /\ UNCHANGED <<file, mode, env, hist>>

(* the script is started again after a run that finished *)
Rerun ==
    /\ pc(1) = "done"
    /\ pc(2) = "off"
    /\ run < MaxRuns
    /\ hist' = Append(hist, [file |-> file, span |-> proc[1].span])
    /\ proc' = [proc EXCEPT ![1] = NewProc("start")]
    /\ UNCHANGED <<file, mode, env>>

Step(p) ==
    \/ Read(p)
    \/ ReadFail(p)
    \/ Substitute(p)
    \/ OpenWrite(p)
    \/ OpenWriteFail(p)
    \/ WriteClose(p)
    \/ PrintSuccess(p)

Next ==
    \/ \E p \in Procs : Step(p)
    \/ Rerun

Spec == Init /\ [][Next]_vars

(* the same script with any of the replacement texts *)
InitRepl ==
    /\ InitFile(Replacements)
    /\ proc = [p \in Procs |-> NewProc(IF p = 1 THEN "start" ELSE "off")]

SpecRepl == InitRepl /\ [][Next]_vars

(* two invocations started on the same file *)
InitConc ==
    /\ InitFile({new_function})
    /\ proc = [p \in Procs |-> NewProc("start")]

NextConc == \E p \in Procs : Step(p)

SpecConc == InitConc /\ [][NextConc]_vars

----------------------------------------------------------------------------
(* Vocabulary of the properties                                            *)

(* the characters of the file before the first run, line endings as they   *)
(* are on disk                                                             *)
OrigText == Utf8Decode(orig)

(* the first region of the original file that matches the pattern *)
OrigRegion == Search(OrigText)

Before(s, m) == SubSeq(s, 1, m.start - 1)

After(s, m) == SubSeq(s, m.end + 1, Len(s))

IsPrefix(a, b) == Len(a) <= Len(b) /\ SubSeq(b, 1, Len(a)) = a

IsSuffix(a, b) == Len(a) <= Len(b) /\ SubSeq(b, Len(b) - Len(a) + 1, Len(b)) = a

(* the first run has written the file *)
FirstRunWritten == run = 1 /\ pc(1) \in {"written", "done"}

(* the second run has written the file *)
SecondRunWritten == run = 2 /\ pc(1) \in {"written", "done"}

(* the function that starts at position i of s: where its parameter list   *)
(* closes, where its body opens, and the brace that closes the body when   *)
(* braces are counted                                                      *)
ParamClose(s, i) == i + 1 + RunNotIn(s, i + 1, {")"})

BodyOpen(s, i) == ParamClose(s, i) + 1 + RunIn(s, ParamClose(s, i) + 1, Whitespace)

Depth(s, a, q) ==
    Cardinality({k \in a..q : s[k] = "{"}) - Cardinality({k \in a..q : s[k] = "}"})

Closers(s, a) == {q \in a..Len(s) : s[q] = "}" /\ Depth(s, a, q) = 0}

FunctionEnd(s, i) == Min(Closers(s, BodyOpen(s, i)))

(* the body is closed and holds blocks nested at most one level deep *)
NestedAtMostOne(s, i) ==
    /\ At(s, BodyOpen(s, i), "{")
    /\ Closers(s, BodyOpen(s, i)) # {}
    /\ \A q \in BodyOpen(s, i)..FunctionEnd(s, i) : Depth(s, BodyOpen(s, i), q) <= 2

(* what one run leaves of a file it can read and write *)
SingleRun(b) == WriteText(Sub(ReadText(b), new_function), linesep)

----------------------------------------------------------------------------
(* C1: when the file holds exactly one region matching the pattern, the    *)
(* file after one run is the text before the region, new_function as the   *)
(* platform writes it, and the text after the region, nothing before or    *)
(* after the region being altered.                                         *)
C1_OneRegionReplaced ==
    (/\ FirstRunWritten
     /\ OrigRegion # NoMatch
     /\ Search(After(OrigText, OrigRegion)) = NoMatch)
    => file = Utf8Encode(Before(OrigText, OrigRegion))
              \o WriteText(new_function, linesep)
              \o Utf8Encode(After(OrigText, OrigRegion))

(* C2: when the matched function has a body whose blocks are nested at     *)
(* most one level deep, the region re.sub matches ends at the brace that   *)
(* closes the body, so that nothing of the old body is left.               *)
C2_WholeFunctionMatched ==
    (/\ run = 1
     /\ pc(1) = "substituted"
     /\ proc[1].span # NoMatch
     /\ NestedAtMostOne(ReadText(orig), proc[1].span.start))
    => proc[1].span.end = FunctionEnd(ReadText(orig), proc[1].span.start)

C4_NoMatchFileUnchanged ==
    (FirstRunWritten /\ OrigRegion = NoMatch) => file = orig

(* C5: for a file with non-ASCII characters, the bytes outside the         *)
(* replaced region are the same before and after a run, line endings       *)
(* included.                                                               *)
C5_BytesOutsideRegionKept ==
    (FirstRunWritten /\ \E i \in 1..Len(orig) : orig[i] = "C3")
    => IF OrigRegion = NoMatch
       THEN file = orig
       ELSE /\ IsPrefix(Utf8Encode(Before(OrigText, OrigRegion)), file)
            /\ IsSuffix(Utf8Encode(After(OrigText, OrigRegion)), file)

(* C6: when the file cannot be opened for reading or is not UTF-8, the run *)
(* gets no further than the read step: the file is never opened for        *)
(* writing, it is as it was (a missing file stays missing) and nothing is  *)
(* printed.                                                                *)
C6_ReadFailureLeavesFile ==
    (env.origmode \notin {"rw", "ro"} \/ ~ Utf8Valid(orig))
    => /\ pc(1) \in {"start", "crashed_read"}
       /\ file = orig
       /\ mode = env.origmode
       /\ proc[1].wopens = 0
       /\ proc[1].stdout = <<>>

(* a run stopped at the read step by bytes that are not UTF-8 *)
C6_Witness ==
    /\ pc(1) = "crashed_read"
    /\ mode = "rw"
    /\ ~ Utf8Valid(file)

(* C7: the success message is printed exactly once by a run that has       *)
(* written the file, after the write and never before it, whether or not   *)
(* re.sub replaced anything.                                               *)
C7_SuccessPrintedAfterWrite ==
    \A p \in Procs :
        /\ pc(p) = "done" => /\ proc[p].stdout = <<SuccessMessage>>
                             /\ proc[p].wopens = 1
                             /\ file = WriteText(content(p), linesep)
        /\ pc(p) # "done" => proc[p].stdout = <<>>

(* a run in which the pattern matched nothing has printed the message *)
C7_Witness ==
    /\ pc(1) = "done"
    /\ proc[1].span = NoMatch
    /\ proc[1].stdout = <<SuccessMessage>>
    /\ orig # <<>>

(* C8: an invocation that reads while the other has the file open for      *)
(* writing reads the emptied file, matches nothing and has nothing to      *)
(* write; once both are done the file is empty or what the other wrote.    *)
C8_RacedReadSeesEmptiedFile ==
    \A p \in Procs :
        proc[p].raced
        => /\ content(p) = <<>>
           /\ proc[p].span = NoMatch
           /\ (\A q \in Procs : pc(q) = "done") => file \in {<<>>, SingleRun(orig)}

(* both invocations are done, one of them read the emptied file, and the   *)
(* file is not what a single run leaves                                    *)
C8_Witness ==
    /\ \A q \in Procs : pc(q) = "done"
    /\ \E p \in Procs : proc[p].raced
    /\ orig # <<>>
    /\ file # SingleRun(orig)

(* C9: when the file holds two or more regions matching the pattern, the   *)
(* text after the first region, the later regions included, is in the file *)
(* unchanged after the run.                                                *)
C9_LaterRegionsKept ==
    (/\ FirstRunWritten
     /\ OrigRegion # NoMatch
     /\ Search(After(OrigText, OrigRegion)) # NoMatch)
    => IsSuffix(Utf8Encode(After(OrigText, OrigRegion)), file)

(* C10: the second run matches nothing inside the text the first run       *)
(* inserted.                                                               *)
C10_NothingMatchedInInsertedText ==
    (/\ run = 2
     /\ pc(1) = "substituted"
     /\ hist[1].span # NoMatch
     /\ proc[1].span # NoMatch)
    => \/ proc[1].span.end < hist[1].span.start
       \/ proc[1].span.start >= hist[1].span.start + Len(new_function)

====
